---- MODULE Spec2Model ----
(***************************************************************************)
(* Instance collapsing (srctools/instancing.py): collapse_all drives       *)
(* rounds of func_instance expansion over a destination VMF; collapse_one  *)
(* copies one instance file into it; InstanceFile.parse routes parameter   *)
(* blocks and I/O proxies; Instance.fixup_key rewrites one keyvalue.       *)
(***************************************************************************)
EXTENDS Integers, Sequences, FiniteSets, TLC

VARIABLES
    pc,             \* position in collapse_all / collapse_one
    recur_limit,    \* collapse_all(recur_limit=...)
    rounds,         \* iterations of `for _ in range(recur_limit)` completed
    vmf,            \* destination VMF: [entities, brushes]
    ids,            \* destination id allocators: [ent, solid, face, node]
    cache,          \* cache: Dict[str, InstanceFile]
    instances,      \* rest of the snapshot `instances` of this round
    inst,           \* the Instance being collapsed
    file,           \* the InstanceFile being collapsed
    new_ents,       \* collapse_one: ids of the entities copied so far
    id_to_ent,      \* collapse_one: old entity id -> new entity id
    auto_inst_count,\* collapse_all: counter for InstanceAuto names
    unknown_kv,     \* _UNKNOWN_KV
    hist            \* history: reads, expansions, ids handed out so far,
                    \* outputs the last input pass rerouted

vars == <<pc, recur_limit, rounds, vmf, ids, cache, instances, inst, file,
          new_ents, id_to_ent, auto_inst_count, unknown_kv, hist>>

(***************************************************************************)
(* Bounds of the model.                                                    *)
(***************************************************************************)
MaxLimit == 3       \* recur_limit is drawn from 1..MaxLimit
MaxRefs == 2        \* func_instance entities in the initial map

(***************************************************************************)
(* Generic helpers.                                                        *)
(***************************************************************************)
Range(f) == {f[x] : x \in DOMAIN f}

Min(a, b) == IF a <= b THEN a ELSE b

EmptyMap == [x \in {} |-> 0]

MapPut(m, k, v) == [x \in DOMAIN m \cup {k} |-> IF x = k THEN v ELSE m[x]]

(***************************************************************************)
(* Strings. str.casefold() and str.startswith(('@', '!')) over the names   *)
(* the model uses.                                                         *)
(***************************************************************************)
Casefold(s) ==
    CASE s = "Trigger" -> "trigger"
      [] s = "OnProxyRelay" -> "onproxyrelay"
      [] s = "ProxyRelay" -> "proxyrelay"
      [] s = "Proxy" -> "proxy"
      [] s = "Door" -> "door"
      [] s = "Open" -> "open"
      [] s = "Inst" -> "inst"
      [] s = "OnPressed" -> "onpressed"
      [] s = "OnPulled" -> "onpulled"
      [] s = "Count" -> "count"
      [] OTHER -> s

StartsGlobal(s) == s \in {"@glob", "!self"}

(***************************************************************************)
(* Vec, Angle and Matrix of the srctools package. The orientation of an    *)
(* instance is a whole number of quarter turns about the z axis.           *)
(***************************************************************************)
Quarter(angles) == (angles[2] \div 90) % 4

RECURSIVE RotVec(_, _)
RotVec(v, k) == IF k = 0 THEN v ELSE RotVec(<<-v[2], v[1], v[3]>>, k - 1)

RotAngle(a, k) == <<a[1] % 360, (a[2] + 90 * k) % 360, a[3] % 360>>

VecAdd(a, b) == <<a[1] + b[1], a[2] + b[2], a[3] + b[3]>>

ZeroVec == <<0, 0, 0>>

(***************************************************************************)
(* The id allocators of the destination VMF (vmf.ent_id, vmf.solid_id,     *)
(* vmf.face_id, vmf.node_id): get_id() hands out an id never handed out    *)
(* before in this document.                                                *)
(***************************************************************************)
GetId(used) ==
    CHOOSE n \in 1..(Cardinality(used) + 1) :
        n \notin used /\ \A m \in 1..(n - 1) : m \in used

(***************************************************************************)
(* Text values. A number in a keyvalue is text: a token is a sequence of   *)
(* characters, int(token) parses it and str(n) formats it. A vector value  *)
(* is the sequence of its comma-separated vectors ("x y z" has one).       *)
(***************************************************************************)
DigitChars == <<"0", "1", "2", "3", "4", "5", "6", "7", "8", "9">>

IsDigit(c) == \E d \in 1..10 : DigitChars[d] = c

DigitVal(c) == (CHOOSE d \in 1..10 : DigitChars[d] = c) - 1

\* ord(c) of the characters of the model: "0" < ... < "9" < "x"
Ord(c) == IF IsDigit(c) THEN 48 + DigitVal(c) ELSE 120

\* int(token) succeeds
IsInt(tok) == Len(tok) > 0 /\ \A i \in 1..Len(tok) : IsDigit(tok[i])

RECURSIVE IntOf(_)
IntOf(tok) ==
    IF Len(tok) = 0 THEN 0
    ELSE 10 * IntOf(SubSeq(tok, 1, Len(tok) - 1)) + DigitVal(tok[Len(tok)])

RECURSIVE StrOf(_)
\* str(n) of a non-negative int
StrOf(n) ==
    IF n < 10 THEN <<DigitChars[n + 1]>>
    ELSE StrOf(n \div 10) \o <<DigitChars[(n % 10) + 1]>>

RECURSIVE StrLess(_, _)
\* a < b on Python strings (lexicographic by code point)
StrLess(a, b) ==
    IF Len(b) = 0 THEN FALSE
    ELSE IF Len(a) = 0 THEN TRUE
    ELSE IF Ord(Head(a)) # Ord(Head(b)) THEN Ord(Head(a)) < Ord(Head(b))
    ELSE StrLess(Tail(a), Tail(b))

RECURSIVE InsertSorted(_, _)
InsertSorted(s, x) ==
    IF s = <<>> THEN <<x>>
    ELSE IF StrLess(x, Head(s)) THEN <<x>> \o s
    ELSE <<Head(s)>> \o InsertSorted(Tail(s), x)

RECURSIVE SortStrings(_)
\* list.sort() on a list of str
SortStrings(s) ==
    IF s = <<>> THEN <<>>
    ELSE InsertSorted(SortStrings(SubSeq(s, 1, Len(s) - 1)), s[Len(s)])

\* Vec.from_str(value): the vector, or the default (0, 0, 0) when the text
\* is not exactly three numbers
VecFromStr(value) == IF Len(value) = 1 THEN value[1] ELSE ZeroVec

\* str(vec)
VecStr(v) == <<v>>

(***************************************************************************)
(* ValueTypes of the FGD package, by their tag, and the ones that hold an  *)
(* entity name (ValueTypes.is_ent_name).                                   *)
(***************************************************************************)
IsEntName(type) == type \in {"target_source", "target_destination", "filterclass"}

(***************************************************************************)
(* Instance.fixup_name                                                     *)
(***************************************************************************)
fixup_name_styles_swapped(i, name) ==
    IF StartsGlobal(name) THEN name
    ELSE IF i.fixup_type = "NONE" THEN name
    ELSE IF i.fixup_type = "SUFFIX" THEN i.name \o "-" \o name
    ELSE name \o "-" \o i.name

fixup_name(i, name) ==
    IF StartsGlobal(name) THEN name
    ELSE IF i.fixup_type = "NONE" THEN name
    ELSE IF i.fixup_type = "PREFIX" THEN i.name \o "-" \o name
    ELSE name \o "-" \o i.name

(***************************************************************************)
(* Instance.fixup_key. Returns the new value with the node id table and    *)
(* the node id allocator as the call leaves them.                          *)
(***************************************************************************)
RECURSIVE MapSides(_, _)
\* lines 118-125: the new id of every token that is a mapped face id
MapSides(face_ids, toks) ==
    IF toks = <<>> THEN <<>>
    ELSE IF IsInt(Head(toks)) /\ IntOf(Head(toks)) \in DOMAIN face_ids
         THEN <<StrOf(face_ids[IntOf(Head(toks))])>> \o MapSides(face_ids, Tail(toks))
         ELSE MapSides(face_ids, Tail(toks))

SideList(face_ids, value) == SortStrings(MapSides(face_ids, value))

KeyResult(value, i, node_used) ==
    [value |-> value, node_ids |-> i.node_ids, node_used |-> node_used]

VecAxisFirstBranch(i, value) == VecStr(RotVec(VecFromStr(value), i.orient))

NodeIdAlwaysFresh(i, node_used, value) ==
    IF ~IsInt(value) THEN KeyResult(value, i, node_used)
    ELSE [value |-> StrOf(GetId(node_used)),
          node_ids |-> MapPut(i.node_ids, IntOf(value), GetId(node_used)),
          node_used |-> node_used \cup {GetId(node_used)}]

\* lines 130-140
NodeId(i, node_used, value) ==
    IF ~IsInt(value) THEN KeyResult(value, i, node_used)
    ELSE IF IntOf(value) \in DOMAIN i.node_ids
    THEN KeyResult(StrOf(i.node_ids[IntOf(value)]), i, node_used)
    ELSE [value |-> StrOf(GetId(node_used)),
          node_ids |-> MapPut(i.node_ids, IntOf(value), GetId(node_used)),
          node_used |-> node_used \cup {GetId(node_used)}]

fixup_key(i, node_used, classnames, type, value) ==
    IF type \in {"vector", "origin", "vecline"}
    THEN KeyResult(VecStr(VecAdd(RotVec(VecFromStr(value), i.orient), i.pos)), i, node_used)
    ELSE IF type = "angle" THEN KeyResult(RotAngle(value, i.orient), i, node_used)
    ELSE IF IsEntName(type) THEN KeyResult(fixup_name(i, value), i, node_used)
    ELSE IF type = "target_name_or_class"
    THEN KeyResult(IF Casefold(value) \notin classnames
                   THEN fixup_name(i, value) ELSE value, i, node_used)
    ELSE IF type = "vecdir"
    THEN KeyResult(VecStr(RotVec(VecFromStr(value), i.orient)), i, node_used)
    ELSE IF type = "sidelist" THEN KeyResult(SideList(i.face_ids, value), i, node_used)
    ELSE IF type = "vecaxis" THEN KeyResult(VecAxisFirstBranch(i, value), i, node_used)
    ELSE IF type \in {"node_id", "node_dest"} THEN NodeId(i, node_used, value)
    ELSE KeyResult(value, i, node_used)

(***************************************************************************)
(* Documents. An entity is [id, classname, keys, keyorder, solids,         *)
(* outputs, fixup, hidden, recur]: keys maps a key to its text, keyorder   *)
(* lists the keys in file order, recur is the RECUR_COUNT_ATTR attribute.  *)
(* A solid is [id, faces, at, hidden]. An output is an Output of the vmf   *)
(* package; None is written NoneStr.                                       *)
(***************************************************************************)
NoneStr == "<None>"

Ent(id, classname, keyorder, keys) ==
    [id |-> id, classname |-> classname, keys |-> keys, keyorder |-> keyorder,
     solids |-> <<>>, outputs |-> <<>>, fixup |-> EmptyMap,
     hidden |-> FALSE, recur |-> 0]

Solid(id, faces, at) == [id |-> id, faces |-> faces, at |-> at, hidden |-> FALSE]

Out(output, target, input) ==
    [output |-> output, target |-> target, input |-> input, params |-> "",
     times |-> -1, delay |-> 0, comma_sep |-> FALSE,
     inst_in |-> NoneStr, inst_out |-> NoneStr]

\* ent[key, default]
KeyOr(ent, key, default) == IF key \in DOMAIN ent.keys THEN ent.keys[key] ELSE default

RECURSIVE SelectSeqIdx(_, _, _)
\* the elements of s at the indexes in keep, in order
SelectSeqIdx(s, keep, i) ==
    IF i > Len(s) THEN <<>>
    ELSE (IF i \in keep THEN <<s[i]>> ELSE <<>>) \o SelectSeqIdx(s, keep, i + 1)

(***************************************************************************)
(* InstanceFile.parse                                                      *)
(***************************************************************************)
KnownTypes == {"string", "integer", "float", "target_destination", "vector"}

\* value.split(' ', 3) of a text given as its single-space separated pieces:
\* at most three splits, so at most four parts
SplitParam(toks) ==
    IF Len(toks) <= 4 THEN [n \in 1..Len(toks) |-> <<toks[n]>>]
    ELSE <<<<toks[1]>>, <<toks[2]>>, <<toks[3]>>, SubSeq(toks, 4, Len(toks))>>

\* lines 221-233: the Param of one paramN value
ParseParam(toks) ==
    LET parts == SplitParam(toks) IN
    [name |-> parts[1][1],
     type |-> IF Len(parts) >= 2 /\ parts[2][1] \in KnownTypes
              THEN parts[2][1] ELSE "string",
     default |-> IF Len(parts) = 3 THEN parts[3] ELSE <<"">>]

IsParamKey(key) == key \in {"param1", "param2", "param3"}

RECURSIVE ParseParamsEnt(_, _, _)
\* lines 214-233 for one func_instance_parms entity
ParseParamsEnt(params, ent, n) ==
    IF n > Len(ent.keyorder) THEN params
    ELSE LET key == ent.keyorder[n] IN
         IF ~IsParamKey(key) THEN ParseParamsEnt(params, ent, n + 1)
         ELSE LET p == ParseParam(ent.keys[key]) IN
              ParseParamsEnt(MapPut(params, Casefold(p.name), p), ent, n + 1)

RECURSIVE ParseParams(_, _, _)
\* lines 212-233
ParseParams(params, ents, n) ==
    IF n > Len(ents) THEN params
    ELSE IF ents[n].classname = "func_instance_parms"
         THEN ParseParams(ParseParamsEnt(params, ents[n], 1), ents, n + 1)
         ELSE ParseParams(params, ents, n + 1)

RECURSIVE ProxyInputsOf(_, _, _)
\* lines 241-244 for the outputs of one func_instance_io_proxy
ProxyInputsOf(table, outs, n) ==
    IF n > Len(outs) THEN table
    ELSE IF Casefold(outs[n].output) = "onproxyrelay"
         THEN ProxyInputsOf(
                  MapPut(table, <<Casefold(outs[n].target), Casefold(outs[n].input)>>,
                         [outs[n] EXCEPT !.output = ""]),
                  outs, n + 1)
         ELSE ProxyInputsOf(table, outs, n + 1)

RECURSIVE ProxyInputs(_, _, _)
\* lines 236-244
ProxyInputs(table, ents, n) ==
    IF n > Len(ents) THEN table
    ELSE IF ents[n].classname = "func_instance_io_proxy"
         THEN ProxyInputs(ProxyInputsOf(table, ents[n].outputs, 1), ents, n + 1)
         ELSE ProxyInputs(table, ents, n + 1)

\* line 239: proxy_names
ProxyNames(ents) ==
    {KeyOr(ents[n], "targetname", "") :
        n \in {m \in 1..Len(ents) : ents[m].classname = "func_instance_io_proxy"}}

\* line 248
IsProxyOutput(out, proxy_names) ==
    Casefold(out.input) = "proxyrelay" /\ Casefold(out.target) \in proxy_names

RECURSIVE ProxyOutputsOf(_, _, _, _)
\* lines 247-251 for one entity
ProxyOutputsOf(table, ent, proxy_names, n) ==
    IF n > Len(ent.outputs) THEN table
    ELSE IF IsProxyOutput(ent.outputs[n], proxy_names)
         THEN ProxyOutputsOf(
                  MapPut(table,
                         <<Casefold(KeyOr(ent, "targetname", "")),
                           Casefold(ent.outputs[n].output)>>,
                         [id |-> ent.id,
                          out |-> [ent.outputs[n] EXCEPT !.input = "", !.target = ""]]),
                  ent, proxy_names, n + 1)
         ELSE ProxyOutputsOf(table, ent, proxy_names, n + 1)

RECURSIVE ProxyOutputs(_, _, _, _)
\* lines 246-251
ProxyOutputs(table, ents, proxy_names, n) ==
    IF n > Len(ents) THEN table
    ELSE ProxyOutputs(ProxyOutputsOf(table, ents[n], proxy_names, 1),
                      ents, proxy_names, n + 1)

KeepDeclarations(ents) == ents

\* lines 213, 237: the entities left after params_ent.remove() / proxy.remove()
RemoveDeclarations(ents) ==
    SelectSeqIdx(ents,
        {n \in 1..Len(ents) :
            ents[n].classname \notin {"func_instance_parms", "func_instance_io_proxy"}},
        1)

\* line 249: ent.outputs.remove(out) for every proxy output
StripProxyOutputs(ents, proxy_names) ==
    [n \in 1..Len(ents) |->
        [ents[n] EXCEPT !.outputs =
            SelectSeqIdx(@, {m \in 1..Len(@) : ~IsProxyOutput(@[m], proxy_names)}, 1)]]

\* InstanceFile(vmf): lines 195-251
InstanceFile(doc) ==
    LET kept == RemoveDeclarations(doc.entities)
        names == ProxyNames(doc.entities)
    IN  [vmf |-> [entities |-> StripProxyOutputs(kept, names), brushes |-> doc.brushes],
         params |-> ParseParams(EmptyMap, doc.entities, 1),
         proxy_inputs |-> ProxyInputs(EmptyMap, doc.entities, 1),
         proxy_outputs |-> ProxyOutputs(EmptyMap, kept, names, 1)]

(***************************************************************************)
(* Instance.from_entity                                                    *)
(***************************************************************************)
\* lines 58-65: FixupStyle(int(...)), PREFIX when the number is no style
FixupStyleOf(n) ==
    CASE n = 0 -> "PREFIX" [] n = 1 -> "SUFFIX" [] n = 2 -> "NONE" [] OTHER -> "PREFIX"

from_entity(ent) ==
    [name |-> KeyOr(ent, "targetname", ""),
     filename |-> KeyOr(ent, "file", ""),
     pos |-> KeyOr(ent, "origin", ZeroVec),
     orient |-> Quarter(KeyOr(ent, "angles", ZeroVec)),
     fixup_type |-> FixupStyleOf(KeyOr(ent, "fixup_style", 0)),
     outputs |-> ent.outputs,
     fixup |-> ent.fixup,
     ent_ids |-> EmptyMap, face_ids |-> EmptyMap,
     brush_ids |-> EmptyMap, node_ids |-> EmptyMap,
     recur_count |-> ent.recur]

NoInstance ==
    [name |-> "", filename |-> "", pos |-> ZeroVec, orient |-> 0,
     fixup_type |-> "PREFIX", outputs |-> <<>>, fixup |-> EmptyMap,
     ent_ids |-> EmptyMap, face_ids |-> EmptyMap,
     brush_ids |-> EmptyMap, node_ids |-> EmptyMap, recur_count |-> 0]

NoFile ==
    [vmf |-> [entities |-> <<>>, brushes |-> <<>>], params |-> EmptyMap,
     proxy_inputs |-> EmptyMap, proxy_outputs |-> EmptyMap]

(***************************************************************************)
(* collapse_one, the copies (lines 312-318 and 352-380). The allocation    *)
(* state a is [ent, solid, face, face_ids, brush_ids]: the allocators of   *)
(* the destination and the tables of the instance.                         *)
(***************************************************************************)
KeepOldId(used, old) == old

\* copy(vmf_file=vmf, ...) takes the id of the copy from the destination
DestId(used, old) == GetId(used)

RECURSIVE CopySides(_, _)
\* Side.copy of every face: [faces, a]
CopySides(faces, a) ==
    IF faces = <<>> THEN [faces |-> <<>>, a |-> a]
    ELSE LET new == DestId(a.face, Head(faces))
             rest == CopySides(Tail(faces),
                         [a EXCEPT !.face = @ \cup {new},
                                   !.face_ids = MapPut(@, Head(faces), new)])
         IN  [rest EXCEPT !.faces = <<new>> \o @]

\* new_brush.localise(origin, orient)
Localise(at, i) == VecAdd(RotVec(at, i.orient), i.pos)

\* old_brush.copy(...), brush_ids[old] = new, localise: [solid, a]
CopySolid(old, a, i) ==
    LET new == DestId(a.solid, old.id)
        sides == CopySides(old.faces, a)
    IN  [solid |-> [id |-> new, faces |-> sides.faces,
                    at |-> Localise(old.at, i), hidden |-> old.hidden],
         a |-> [sides.a EXCEPT !.solid = @ \cup {new},
                               !.brush_ids = MapPut(@, old.id, new)]]

RECURSIVE CopySolids(_, _, _)
\* [solids, a]
CopySolids(solids, a, i) ==
    IF solids = <<>> THEN [solids |-> <<>>, a |-> a]
    ELSE LET one == CopySolid(Head(solids), a, i)
             rest == CopySolids(Tail(solids), one.a, i)
         IN  [rest EXCEPT !.solids = <<one.solid>> \o @]

\* lines 312-318: the world brushes of the file that are shown
ShownBrushes(f) ==
    SelectSeqIdx(f.vmf.brushes,
                 {n \in 1..Len(f.vmf.brushes) : ~f.vmf.brushes[n].hidden}, 1)

\* lines 352-354: the entities of the file that are shown
ShownEnts(f) ==
    SelectSeqIdx(f.vmf.entities,
                 {n \in 1..Len(f.vmf.entities) : ~f.vmf.entities[n].hidden}, 1)

RECURSIVE CopyEntsRewritingSides(_, _, _)
\* the side lists rewritten as each entity is copied
CopyEntsRewritingSides(olds, a, i) ==
    IF olds = <<>> THEN [ents |-> <<>>, a |-> a, ent_ids |-> EmptyMap]
    ELSE LET old == Head(olds)
             new == DestId(a.ent, old.id)
             sol == CopySolids(old.solids, [a EXCEPT !.ent = @ \cup {new}], i)
             rest == CopyEntsRewritingSides(Tail(olds), sol.a, i)
             keys == [k \in DOMAIN old.keys |->
                         IF k = "sides" THEN SideList(sol.a.face_ids, old.keys[k])
                         ELSE old.keys[k]]
         IN  [ents |-> <<[old EXCEPT !.id = new, !.solids = sol.solids,
                                     !.recur = 0, !.keys = keys]>> \o rest.ents,
              a |-> rest.a,
              ent_ids |-> MapPut(rest.ent_ids, old.id, new)]

RECURSIVE CopyEnts(_, _, _)
\* lines 355-373: [ents, a, ent_ids] for the entities olds
CopyEnts(olds, a, i) ==
    IF olds = <<>> THEN [ents |-> <<>>, a |-> a, ent_ids |-> EmptyMap]
    ELSE LET old == Head(olds)
             new == DestId(a.ent, old.id)
             sol == CopySolids(old.solids, [a EXCEPT !.ent = @ \cup {new}], i)
             rest == CopyEnts(Tail(olds), sol.a, i)
         IN  [ents |-> <<[old EXCEPT !.id = new, !.solids = sol.solids,
                                     !.recur = 0]>> \o rest.ents,
              a |-> rest.a,
              ent_ids |-> MapPut(rest.ent_ids, old.id, new)]

AllocState(i) ==
    [ent |-> ids.ent, solid |-> ids.solid, face |-> ids.face,
     face_ids |-> i.face_ids, brush_ids |-> i.brush_ids]

(***************************************************************************)
(* collapse_one, instance inputs (lines 326-346)                           *)
(***************************************************************************)
\* lines 330-336: the proxy input this output of the destination goes through
InputMatches(out, i, f) ==
    /\ Casefold(out.target) = Casefold(i.name)
    /\ out.inst_in # NoneStr
    /\ <<out.inst_in, out.input>> \in DOMAIN f.proxy_inputs

MergeInputAlwaysParams(out, proxy_out) ==
    [out EXCEPT !.target = proxy_out.target,
                !.input = proxy_out.input,
                !.inst_in = NoneStr,
                !.params = proxy_out.params,
                !.times = Min(@, proxy_out.times),
                !.delay = @ + proxy_out.delay,
                !.comma_sep = IF ~proxy_out.comma_sep THEN FALSE ELSE @]

\* lines 338-346
MergeInput(out, proxy_out) ==
    [out EXCEPT !.target = proxy_out.target,
                !.input = proxy_out.input,
                !.inst_in = NoneStr,
                !.params = IF proxy_out.params # "" THEN proxy_out.params ELSE @,
                !.times = Min(@, proxy_out.times),
                !.delay = @ + proxy_out.delay,
                !.comma_sep = IF ~proxy_out.comma_sep THEN FALSE ELSE @]

ApplyInput(out, i, f) ==
    IF InputMatches(out, i, f)
    THEN MergeInput(out, f.proxy_inputs[<<out.inst_in, out.input>>])
    ELSE out

\* lines 328-346 over every entity of the destination
ApplyInputs(ents, i, f) ==
    [n \in 1..Len(ents) |->
        [ents[n] EXCEPT !.outputs = [m \in 1..Len(@) |-> ApplyInput(@[m], i, f)]]]

(***************************************************************************)
(* The FGD database (fgd[classname].kv[key].type), with the keyvalues of   *)
(* _CBaseEntity_ as the fallback of a classname it does not hold.          *)
(***************************************************************************)
Missing == "<missing>"

KvType(classname, key) ==
    CASE key = "targetname" -> "target_source"
      [] key = "parentname" -> "target_destination"
      [] key = "file" /\ classname = "func_instance" -> "instance_file"
      [] key = "fixup_style" /\ classname = "func_instance" -> "choices"
      [] key = "sides" /\ classname = "env_cubemap" -> "sidelist"
      [] key = "hingeaxis" /\ classname = "phys_hinge" -> "vecaxis"
      [] key = "startnode" /\ classname = "info_node_link" -> "node_dest"
      [] key = "endnode" /\ classname = "info_node_link" -> "node_dest"
      [] key = "movedir" /\ classname = "func_brush" -> "vecdir"
      [] key = "negpitch" /\ classname = "light_environment" -> "angle_negative_pitch"
      [] OTHER -> Missing

\* the classnames of the database (the `classnames` of fixup_key)
Classnames ==
    {"func_instance", "info_target", "light_environment", "func_brush",
     "env_cubemap", "phys_hinge", "info_node_link"}

(***************************************************************************)
(* EntityFixup.substitute(value, ''): a text that is an instance variable  *)
(* becomes its value, '' when the instance does not set it.                *)
(***************************************************************************)
IsVariable(text) == text \in {"$par", "$tgt"}

Substitute(fixup, text) ==
    IF IsVariable(text)
    THEN (IF text \in DOMAIN fixup THEN fixup[text] ELSE "")
    ELSE text

\* the types whose values are free text in the model
TextTypes ==
    {"target_source", "target_destination", "filterclass",
     "target_name_or_class", "string", "instance_file"}

SubstituteKey(fixup, type, value) ==
    IF type \in TextTypes THEN Substitute(fixup, value) ELSE value

(***************************************************************************)
(* collapse_one, the keyvalues of one copied entity (lines 383-454). The   *)
(* state r is [ent, i, node, unknown, warned]: the entity, the instance    *)
(* (for its node id table), the node id allocator, _UNKNOWN_KV and the     *)
(* warnings logged.                                                        *)
(***************************************************************************)
ComposedAnglesSwapped(ent, i) ==
    LET a == KeyOr(ent, "angles", ZeroVec)
        p == IF "yaw" \in DOMAIN ent.keys THEN ent.keys["yaw"] ELSE a[1]
        y == IF "pitch" \in DOMAIN ent.keys THEN ent.keys["pitch"] ELSE a[2]
    IN  RotAngle(<<p, y, a[3]>>, i.orient)

\* lines 396-401
ComposedAngles(ent, i) ==
    LET a == KeyOr(ent, "angles", ZeroVec)
        p == IF "pitch" \in DOMAIN ent.keys THEN ent.keys["pitch"] ELSE a[1]
        y == IF "yaw" \in DOMAIN ent.keys THEN ent.keys["yaw"] ELSE a[2]
    IN  RotAngle(<<p, y, a[3]>>, i.orient)

WarnAlways(r, key) ==
    [r EXCEPT !.unknown = @ \cup {<<r.ent.classname, key>>},
              !.warned = Append(@, <<r.ent.classname, key>>)]

\* lines 428-431, 434-437, 439-442: warn once per (classname, key)
WarnOnce(r, key) ==
    IF <<r.ent.classname, key>> \in r.unknown THEN r
    ELSE [r EXCEPT !.unknown = @ \cup {<<r.ent.classname, key>>},
                   !.warned = Append(@, <<r.ent.classname, key>>)]

IsDummyFixup(key) == key \in {"$fixup"}

\* lines 404-444 for one key
RewriteKey(r, key, angles) ==
    LET folded == Casefold(key)
        type == KvType(r.ent.classname, folded)
        value == SubstituteKey(r.i.fixup, type, r.ent.keys[key])
    IN  IF folded = "origin"
        THEN [r EXCEPT !.ent.keys["origin"] = VecAdd(RotVec(value, r.i.orient), r.i.pos)]
        ELSE IF folded = "angles" THEN [r EXCEPT !.ent.keys["angles"] = angles]
        ELSE IF folded = "pitch" THEN [r EXCEPT !.ent.keys["pitch"] = angles[1]]
        ELSE IF folded = "yaw" THEN [r EXCEPT !.ent.keys["yaw"] = angles[2]]
        ELSE IF folded \in {"classname", "hammerid", "spawnflags", "nodeid"} THEN r
        ELSE IF type = Missing
        THEN (IF IsDummyFixup(folded) /\ r.ent.classname = "func_instance"
              THEN r ELSE WarnOnce(r, key))
        ELSE IF type \in {"angle_negative_pitch", "instance_variable"}
        THEN WarnOnce(r, key)
        ELSE LET res == fixup_key(r.i, r.node, Classnames, type, value) IN
             [r EXCEPT !.ent.keys[key] = res.value,
                       !.i.node_ids = res.node_ids,
                       !.node = res.node_used]

RECURSIVE RewriteKeys(_, _, _)
RewriteKeys(r, n, angles) ==
    IF n > Len(r.ent.keyorder) THEN r
    ELSE RewriteKeys(RewriteKey(r, r.ent.keyorder[n], angles), n + 1, angles)

StartsLiteral(value) == value \in {"@glob", "!self", "-1", ".5", "0", "1"}

\* lines 447-450
RewriteFixup(fixup, i) ==
    [k \in DOMAIN fixup |->
        IF fixup[k] # "" /\ ~StartsLiteral(fixup[k])
        THEN fixup_name(i, fixup[k]) ELSE fixup[k]]

\* lines 453-454
RewriteOutputs(outs, i) ==
    [m \in 1..Len(outs) |->
        [outs[m] EXCEPT !.target = fixup_name(i, Substitute(i.fixup, @))]]

RewriteEntUnmarked(r) ==
    LET done == RewriteKeys(r, 1, ComposedAngles(r.ent, r.i)) IN
    [done EXCEPT !.ent.fixup = RewriteFixup(@, r.i),
                 !.ent.outputs = RewriteOutputs(@, r.i)]

\* lines 383-454 for one copied entity
RewriteEnt(r) ==
    LET marked == IF Casefold(r.ent.classname) = "func_instance"
                  THEN [r EXCEPT !.ent.recur = r.i.recur_count + 1] ELSE r
        done == RewriteKeys(marked, 1, ComposedAngles(r.ent, r.i))
    IN  [done EXCEPT !.ent.fixup = RewriteFixup(@, r.i),
                     !.ent.outputs = RewriteOutputs(@, r.i)]

RECURSIVE RewriteEnts(_, _, _)
\* lines 382-454 over the entities of the destination with ids in todo
RewriteEnts(r, ents, n) ==
    IF n > Len(ents) THEN [r EXCEPT !.ents = ents]
    ELSE IF ents[n].id \notin r.todo THEN RewriteEnts(r, ents, n + 1)
    ELSE LET one == RewriteEnt([ent |-> ents[n], i |-> r.i, node |-> r.node,
                                unknown |-> r.unknown, warned |-> r.warned])
         IN  RewriteEnts([r EXCEPT !.i = one.i, !.node = one.node,
                                   !.unknown = one.unknown, !.warned = one.warned],
                         [ents EXCEPT ![n] = one.ent], n + 1)

(***************************************************************************)
(* collapse_one, instance outputs (lines 456-465)                          *)
(***************************************************************************)
\* Output.combine(first, second)
Combine(first, second) ==
    [output |-> first.output, target |-> second.target, input |-> second.input,
     params |-> IF second.params # "" THEN second.params ELSE first.params,
     times |-> IF first.times = -1 THEN second.times
               ELSE IF second.times = -1 THEN first.times
               ELSE Min(first.times, second.times),
     delay |-> first.delay + second.delay,
     comma_sep |-> first.comma_sep /\ second.comma_sep,
     inst_in |-> second.inst_in, inst_out |-> first.inst_out]

ProxyKey(out) == <<Casefold(out.inst_out), Casefold(out.output)>>

\* line 461 finds an entry
OutputMatches(out, f) == out.inst_out # NoneStr /\ ProxyKey(out) \in DOMAIN f.proxy_outputs

\* line 465 raises KeyError: the entity of the entry was not copied
OutputFails(i, f, copied) ==
    \E m \in 1..Len(i.outputs) :
        /\ OutputMatches(i.outputs[m], f)
        /\ f.proxy_outputs[ProxyKey(i.outputs[m])].id \notin DOMAIN copied

RECURSIVE AddOutputs(_, _, _, _, _)
\* lines 456-465: the entities with the merged outputs added
AddOutputs(ents, i, f, copied, m) ==
    IF m > Len(i.outputs) THEN ents
    ELSE IF ~OutputMatches(i.outputs[m], f) THEN AddOutputs(ents, i, f, copied, m + 1)
    ELSE LET entry == f.proxy_outputs[ProxyKey(i.outputs[m])]
             merged == Combine(entry.out, i.outputs[m])
         IN  AddOutputs(
                 [n \in 1..Len(ents) |->
                     IF ents[n].id = copied[entry.id]
                     THEN [ents[n] EXCEPT !.outputs = Append(@, merged)]
                     ELSE ents[n]],
                 i, f, copied, m + 1)

(***************************************************************************)
(* The filesystem: the instance files fsys.read_prop can read, as          *)
(* VMF.parse(props, preserve_ids=True) returns them.                       *)
(***************************************************************************)
Ref(id, name, path, origin, angles, style) ==
    Ent(id, "func_instance",
        <<"targetname", "file", "origin", "angles", "fixup_style">>,
        [targetname |-> name, file |-> path, origin |-> origin,
         angles |-> angles, fixup_style |-> style])

Target(id, name, origin, angles) ==
    Ent(id, "info_target", <<"targetname", "origin", "angles">>,
        [targetname |-> name, origin |-> origin, angles |-> angles])

LeafFile ==
    [brushes |-> <<Solid(1, <<1, 2>>, <<1, 0, 0>>)>>,
     entities |-> <<
        Ent(1, "info_target", <<"targetname", "origin", "angles", "mystery">>,
            [targetname |-> "crate", origin |-> <<1, 0, 0>>, angles |-> <<0, 0, 0>>,
             mystery |-> "m"]),
        [Ent(2, "func_brush", <<"targetname", "origin", "movedir">>,
             [targetname |-> "wall", origin |-> <<0, 2, 0>>,
              movedir |-> <<<<1, 0, 0>>>>])
            EXCEPT !.solids = <<Solid(2, <<3>>, <<0, 1, 0>>)>>] >>]

MidFile ==
    [brushes |-> <<>>,
     entities |-> <<
        [Ref(1, "in", "leaf", <<2, 0, 0>>, <<0, 90, 0>>, 0)
            EXCEPT !.fixup = [x \in {"$tgt"} |-> "crate"]],
        Target(2, "mark", <<0, 0, 1>>, <<0, 0, 0>>) >>]

TopFile ==
    [brushes |-> <<>>,
     entities |-> << Ref(1, "", "mid", <<0, 4, 0>>, <<0, 0, 0>>, 1) >>]

SelfFile ==
    [brushes |-> <<>>,
     entities |-> << Ref(1, "loop", "self", <<1, 0, 0>>, <<0, 0, 0>>, 2) >>]

\* entities with and without the split pitch and yaw keys
FieldsFile ==
    [brushes |-> <<Solid(1, <<1, 2>>, <<0, 0, 0>>)>>,
     entities |-> <<
        Ent(1, "info_target",
            <<"targetname", "origin", "angles", "parentname", "mystery">>,
            [targetname |-> "t1", origin |-> <<1, 2, 0>>, angles |-> <<0, 90, 0>>,
             parentname |-> "t2", mystery |-> "$par"]),
        Ent(2, "light_environment",
            <<"targetname", "origin", "angles", "pitch">>,
            [targetname |-> "@glob", origin |-> <<0, 0, 8>>,
             angles |-> <<0, 90, 0>>, pitch |-> 270]),
        Ent(3, "light_environment",
            <<"targetname", "origin", "angles", "pitch", "yaw">>,
            [targetname |-> "sun", origin |-> <<0, 0, 8>>,
             angles |-> <<30, 180, 0>>, pitch |-> 30, yaw |-> 180]),
        Ent(4, "info_target",
            <<"targetname", "origin", "angles", "yaw", "parentname", "mystery">>,
            [targetname |-> "t4", origin |-> <<3, 0, 0>>, angles |-> <<0, 0, 0>>,
             yaw |-> 90, parentname |-> "$par", mystery |-> "m"]),
        Ent(5, "env_cubemap", <<"origin", "sides">>,
            [origin |-> <<0, 0, 0>>, sides |-> <<<<"2">>, <<"9">>, <<"1">>, <<"x">>>>]),
        Ent(6, "info_node_link", <<"startnode", "endnode", "parentname">>,
            [startnode |-> <<"7">>, endnode |-> <<"7">>, parentname |-> "!self"]),
        Ent(7, "phys_hinge", <<"origin", "hingeaxis">>,
            [origin |-> <<1, 0, 0>>,
             hingeaxis |-> <<<<1, 0, 0>>, <<1, 0, 2>>>>]),
        Ent(8, "env_cubemap", <<"origin", "sides">>,
            [origin |-> <<0, 0, 2>>, sides |-> <<<<"5">>, <<"6">>>>]),
        [Ent(9, "func_brush", <<"origin">>, [origin |-> <<0, 0, 0>>])
            EXCEPT !.solids = <<Solid(2, <<5>>, <<0, 0, 1>>)>>],
        Ent(10, "info_node_link", <<"startnode", "endnode">>,
            [startnode |-> <<"8">>, endnode |-> <<"x">>]),
        Ent(11, "info_node_link", <<"startnode", "endnode">>,
            [startnode |-> <<"8">>, endnode |-> <<"7">>]) >>]

\* a func_instance_io_proxy with two inputs, and an entity with an output
\* through the proxy
RelayFile ==
    [brushes |-> <<>>,
     entities |-> <<
        [Ent(1, "func_instance_io_proxy", <<"targetname", "origin">>,
             [targetname |-> "proxy", origin |-> <<0, 0, 0>>])
            EXCEPT !.outputs = <<
                [Out("OnProxyRelay", "door", "Open") EXCEPT
                    !.times = 3, !.delay = 1, !.comma_sep = TRUE],
                [Out("OnProxyRelay", "door", "Trigger") EXCEPT
                    !.params = "p", !.times = -1, !.delay = 0] >>],
        [Target(2, "button", <<1, 0, 0>>, <<0, 0, 0>>)
            EXCEPT !.outputs = <<
                [Out("OnPressed", "proxy", "ProxyRelay") EXCEPT !.delay = 1],
                Out("OnPressed", "door", "Open") >>],
        Target(3, "door", <<2, 0, 0>>, <<0, 0, 0>>),
        [Target(4, "lever", <<3, 0, 0>>, <<0, 0, 0>>)
            EXCEPT !.hidden = TRUE,
                   !.outputs = << Out("OnPulled", "proxy", "ProxyRelay") >>] >>]

ParamsFile ==
    [brushes |-> <<>>,
     entities |-> <<
        Ent(1, "func_instance_parms", <<"origin", "param1", "param2", "param3">>,
            [origin |-> <<0, 0, 0>>,
             param1 |-> <<"myparam", "string", "hello", "world">>,
             param2 |-> <<"Count", "integer", "3">>,
             param3 |-> <<"count", "colour">>]),
        Target(2, "crate", <<0, 0, 0>>, <<0, 0, 0>>) >>]

FilePaths == {"leaf", "mid", "top", "self", "fields", "relay", "params"}

\* a path no file system of the chain holds
MissingPath == "missing"

FileAt(path) ==
    CASE path = "leaf" -> LeafFile
      [] path = "mid" -> MidFile
      [] path = "top" -> TopFile
      [] path = "self" -> SelfFile
      [] path = "fields" -> FieldsFile
      [] path = "relay" -> RelayFile
      [] path = "params" -> ParamsFile

(***************************************************************************)
(* The map collapse_all is given.                                          *)
(***************************************************************************)
\* the paths the func_instance entities of the first maps name
NestPaths == {"leaf", "mid", "top", "self", MissingPath}

FieldPaths == {"fields", "relay", "params"}

\* an entity of the map with outputs to the instance named "inst"
OuterEnt ==
    [Target(1, "outer", <<0, 0, 0>>, <<0, 0, 0>>) EXCEPT !.outputs = <<
        [Out("OnTrigger", "inst", "open") EXCEPT
            !.inst_in = "door", !.times = 1, !.delay = 2, !.params = "r",
            !.comma_sep = TRUE],
        [Out("OnTrigger", "Inst", "trigger") EXCEPT
            !.inst_in = "door", !.times = 5, !.delay = 1, !.params = "q",
            !.comma_sep = TRUE],
        [Out("OnTrigger", "inst", "Trigger") EXCEPT !.inst_in = "door"],
        [Out("OnTrigger", "inst", "close") EXCEPT !.inst_in = "door"],
        Out("OnTrigger", "inst", "open"),
        [Out("OnTrigger", "other", "open") EXCEPT !.inst_in = "door"] >>]

BaseDoc(refs) ==
    [entities |-> <<OuterEnt>> \o refs,
     brushes |-> <<Solid(1, <<1, 2, 3, 4, 5, 6>>, <<0, 0, 0>>),
                   Solid(2, <<7, 8>>, <<0, 0, 4>>)>>]

RefName(n) == IF n = 2 THEN "" ELSE "inst"

\* the n-th func_instance of a map of nested instances
NestRef(n, path) ==
    Ref(n + 1, RefName(n), path, <<16 * n, 0, 0>>, <<0, (90 * (n - 1)) % 360, 0>>, n % 3)

\* the outputs of the func_instance of a map with one instance
RefOutputs(lever) ==
    << [Out("OnPressed", "lamp", "TurnOn") EXCEPT
            !.inst_out = "button", !.times = 2, !.delay = 1],
       Out("OnUser1", "lamp", "TurnOff"),
       [Out("OnPressed", "lamp", "Toggle") EXCEPT !.inst_out = "nobody"] >>
    \o (IF lever
        THEN << [Out("OnPulled", "lamp", "TurnOn") EXCEPT !.inst_out = "lever"] >>
        ELSE <<>>)

FieldRef(path, pos, yaw, style, lever) ==
    [Ref(2, "inst", path, pos, <<0, yaw, 0>>, style)
        EXCEPT !.outputs = RefOutputs(lever),
               !.fixup = [x \in {"$par"} |-> "base"]]

InitDocs ==
    {BaseDoc([n \in 1..len |-> NestRef(n, choice[n])]) :
        len \in 0..MaxRefs, choice \in [1..MaxRefs -> NestPaths]}
    \cup
    {BaseDoc(<<FieldRef(path, pos, yaw, style, lever)>>) :
        path \in FieldPaths, pos \in {ZeroVec, <<16, 0, 0>>}, yaw \in {0, 90},
        style \in {0, 1, 2}, lever \in BOOLEAN}

(***************************************************************************)
(* The ids a document holds.                                               *)
(***************************************************************************)
DocEnts(doc) == Range(doc.entities)

DocSolids(doc) ==
    Range(doc.brushes) \cup UNION {Range(e.solids) : e \in DocEnts(doc)}

DocEntIds(doc) == {e.id : e \in DocEnts(doc)}

DocSolidIds(doc) == {b.id : b \in DocSolids(doc)}

DocFaceIds(doc) == UNION {Range(b.faces) : b \in DocSolids(doc)}

DocIds(doc) ==
    [ent |-> DocEntIds(doc), solid |-> DocSolidIds(doc), face |-> DocFaceIds(doc)]

NoIds == [ent |-> {}, solid |-> {}, face |-> {}, node |-> {}]

Init ==
    /\ pc = "scan"
    /\ recur_limit \in 1..MaxLimit
    /\ rounds = 0
    /\ vmf \in InitDocs
    /\ ids = [ent |-> DocEntIds(vmf), solid |-> DocSolidIds(vmf),
              face |-> DocFaceIds(vmf), node |-> {}]
    /\ cache = EmptyMap
    /\ instances = {}
    /\ inst = NoInstance
    /\ file = NoFile
    /\ new_ents = {}
    /\ id_to_ent = EmptyMap
    /\ auto_inst_count = 0
    /\ unknown_kv = {}
    /\ hist = [reads |-> <<>>, expanded |-> <<>>, snapped |-> <<>>,
               pre |-> NoIds, alloc |-> NoIds, warned |-> <<>>, start |-> vmf,
               rerouted |-> {}]

(***************************************************************************)
(* collapse_all (lines 483-505)                                            *)
(***************************************************************************)
RECURSIVE JoinChars(_)
JoinChars(chars) == IF chars = <<>> THEN "" ELSE Head(chars) \o JoinChars(Tail(chars))

\* line 487: list(vmf.by_class['func_instance']), a set of entities
FuncInstances(doc) == {e.id : e \in {x \in DocEnts(doc) : x.classname = "func_instance"}}

EntWithId(doc, id) == CHOOSE e \in DocEnts(doc) : e.id = id

\* inst_ent.remove()
RemoveEnt(doc, id) ==
    [doc EXCEPT !.entities =
        SelectSeqIdx(@, {n \in 1..Len(@) : @[n].id # id}, 1)]

\* lines 491-496: the Instance of the entity, named when it has no name
NamedInstance(id) ==
    LET i == from_entity(EntWithId(vmf, id)) IN
    IF i.name = ""
    THEN [i EXCEPT !.name = "InstanceAuto" \o JoinChars(StrOf(auto_inst_count + 1))]
    ELSE i

\* lines 491-496, common to the three ways line 497-502 can go
Begin(id) ==
    /\ pc = "next"
    /\ id \in instances
    /\ instances' = instances \ {id}
    /\ inst' = NamedInstance(id)
    /\ auto_inst_count' =
           IF from_entity(EntWithId(vmf, id)).name = ""
           THEN auto_inst_count + 1 ELSE auto_inst_count
    /\ vmf' = RemoveEnt(vmf, id)
    /\ new_ents' = {}
    /\ id_to_ent' = EmptyMap
    /\ UNCHANGED <<recur_limit, rounds, ids, unknown_kv>>

ExhaustedOneEarly(done, limit) == done + 1 >= limit

\* line 486: range(recur_limit) has no further value
Exhausted(done, limit) == done >= limit

FewInstances(found) == Cardinality(found) <= 1

\* line 488: not instances
NoInstances(found) == found = {}

\* line 486, the range is exhausted: line 505
Overflow ==
    /\ pc = "scan"
    /\ Exhausted(rounds, recur_limit)
    /\ pc' = "Overflowed"
    /\ UNCHANGED <<recur_limit, rounds, vmf, ids, cache, instances, inst, file,
                   new_ents, id_to_ent, auto_inst_count, unknown_kv, hist>>

\* lines 487-489: no instance is left
Terminate ==
    /\ pc = "scan"
    /\ ~Exhausted(rounds, recur_limit)
    /\ NoInstances(FuncInstances(vmf))
    /\ pc' = "Terminated"
    /\ UNCHANGED <<recur_limit, rounds, vmf, ids, cache, instances, inst, file,
                   new_ents, id_to_ent, auto_inst_count, unknown_kv, hist>>

\* line 487: the instances of this round
Snapshot ==
    /\ pc = "scan"
    /\ ~Exhausted(rounds, recur_limit)
    /\ ~NoInstances(FuncInstances(vmf))
    /\ instances' = FuncInstances(vmf)
    /\ hist' = [hist EXCEPT !.snapped = Append(@, FuncInstances(vmf))]
    /\ pc' = "next"
    /\ UNCHANGED <<recur_limit, rounds, vmf, ids, cache, inst, file,
                   new_ents, id_to_ent, auto_inst_count, unknown_kv>>

\* line 490, the snapshot is done: the next iteration of line 486
EndRound ==
    /\ pc = "next"
    /\ instances = {}
    /\ rounds' = rounds + 1
    /\ pc' = "scan"
    /\ UNCHANGED <<recur_limit, vmf, ids, cache, instances, inst, file,
                   new_ents, id_to_ent, auto_inst_count, unknown_kv, hist>>

\* the history at the start of an expansion: the ids the map holds, and the
\* ids the expansions before it handed out
Started(id) ==
    [hist EXCEPT !.expanded = Append(@, id),
                 !.pre = DocIds(vmf') @@ [node |-> {}],
                 !.alloc = [ent |-> @.ent \cup Range(inst.ent_ids),
                            solid |-> @.solid \cup Range(inst.brush_ids),
                            face |-> @.face \cup Range(inst.face_ids),
                            node |-> @.node \cup Range(inst.node_ids)]]

NeverCached(files, path) == FALSE

\* line 498: cache[inst.filename] does not raise KeyError
Cached(files, path) == path \in DOMAIN files

\* line 498: the file is in the cache
CacheHit(id) ==
    /\ Begin(id)
    /\ Cached(cache, inst'.filename)
    /\ file' = cache[inst'.filename]
    /\ hist' = Started(id)
    /\ pc' = "brushes"
    /\ UNCHANGED cache

\* lines 499-502: the file is read, parsed and cached
CacheMiss(id) ==
    /\ Begin(id)
    /\ ~Cached(cache, inst'.filename)
    /\ inst'.filename \in FilePaths
    /\ file' = InstanceFile(FileAt(inst'.filename))
    /\ cache' = MapPut(cache, inst'.filename, file')
    /\ hist' = [Started(id) EXCEPT !.reads = Append(@, inst'.filename)]
    /\ pc' = "brushes"

ReadFailsAndSkips(id) ==
    /\ Begin(id)
    /\ ~Cached(cache, inst'.filename)
    /\ inst'.filename \notin FilePaths
    /\ hist' = [hist EXCEPT !.reads = Append(@, inst'.filename)]
    /\ pc' = "next"
    /\ UNCHANGED <<cache, file>>

\* line 500 raises: the file cannot be read
ReadFails(id) ==
    /\ Begin(id)
    /\ ~Cached(cache, inst'.filename)
    /\ inst'.filename \notin FilePaths
    /\ hist' = [hist EXCEPT !.reads = Append(@, inst'.filename)]
    /\ pc' = "ReadFailed"
    /\ UNCHANGED <<cache, file>>

(***************************************************************************)
(* collapse_one (lines 287-465), pass by pass                              *)
(***************************************************************************)
\* lines 312-318
CopyBrushes ==
    /\ pc = "brushes"
    /\ LET res == CopySolids(ShownBrushes(file), AllocState(inst), inst) IN
        /\ vmf' = [vmf EXCEPT !.brushes = @ \o res.solids]
        /\ ids' = [ids EXCEPT !.solid = res.a.solid, !.face = res.a.face]
        /\ inst' = [inst EXCEPT !.face_ids = res.a.face_ids,
                                !.brush_ids = res.a.brush_ids]
    /\ pc' = "inputs"
    /\ UNCHANGED <<recur_limit, rounds, cache, instances, file, new_ents,
                   id_to_ent, auto_inst_count, unknown_kv, hist>>

\* the merge of lines 338-346 written into the proxy input of the file
InstanceInputsIntoProxy ==
    /\ pc = "inputs"
    /\ vmf' = [vmf EXCEPT !.entities = ApplyInputs(@, inst, file)]
    /\ cache' = [cache EXCEPT ![inst.filename].proxy_inputs =
                    [k \in DOMAIN @ |->
                        IF \E e \in DocEnts(vmf) : \E m \in 1..Len(e.outputs) :
                               /\ InputMatches(e.outputs[m], inst, file)
                               /\ k = <<e.outputs[m].inst_in, e.outputs[m].input>>
                        THEN [@[k] EXCEPT !.delay = @ + 1]
                        ELSE @[k]]]
    /\ file' = cache'[inst.filename]
    /\ pc' = "ents"
    /\ UNCHANGED <<recur_limit, rounds, ids, instances, inst, new_ents,
                   id_to_ent, auto_inst_count, unknown_kv, hist>>

\* lines 330-336: the places <<entity, output>> of the outputs that go through
\* a proxy input
Rerouted(ents, i, f) ==
    UNION {{<<n, m>> : m \in {k \in 1..Len(ents[n].outputs) :
                                  InputMatches(ents[n].outputs[k], i, f)}} :
           n \in 1..Len(ents)}

\* lines 326-346
InstanceInputs ==
    /\ pc = "inputs"
    /\ vmf' = [vmf EXCEPT !.entities = ApplyInputs(@, inst, file)]
    /\ hist' = [hist EXCEPT !.rerouted = Rerouted(vmf.entities, inst, file)]
    /\ pc' = "ents"
    /\ UNCHANGED <<recur_limit, rounds, ids, cache, instances, inst, file, new_ents,
                   id_to_ent, auto_inst_count, unknown_kv>>

\* lines 350-380
CopyEntities ==
    /\ pc = "ents"
    /\ LET res == CopyEnts(ShownEnts(file), AllocState(inst), inst) IN
        /\ vmf' = [vmf EXCEPT !.entities = @ \o res.ents]
        /\ ids' = [ids EXCEPT !.ent = res.a.ent, !.solid = res.a.solid,
                              !.face = res.a.face]
        /\ inst' = [inst EXCEPT !.face_ids = res.a.face_ids,
                                !.brush_ids = res.a.brush_ids,
                                !.ent_ids = res.ent_ids]
        /\ new_ents' = Range(res.ent_ids)
        /\ id_to_ent' = res.ent_ids
    /\ pc' = "keyvalues"
    /\ UNCHANGED <<recur_limit, rounds, cache, instances, file,
                   auto_inst_count, unknown_kv, hist>>

\* lines 382-454
Keyvalues ==
    /\ pc = "keyvalues"
    /\ LET r == RewriteEnts([i |-> inst, node |-> ids.node, unknown |-> unknown_kv,
                             warned |-> hist.warned, todo |-> new_ents,
                             ents |-> <<>>],
                            vmf.entities, 1) IN
        /\ vmf' = [vmf EXCEPT !.entities = r.ents]
        /\ ids' = [ids EXCEPT !.node = r.node]
        /\ inst' = r.i
        /\ unknown_kv' = r.unknown
        /\ hist' = [hist EXCEPT !.warned = r.warned]
    /\ pc' = "outputs"
    /\ UNCHANGED <<recur_limit, rounds, cache, instances, file, new_ents,
                   id_to_ent, auto_inst_count>>

\* lines 456-465, every entry found names a copied entity
InstanceOutputs ==
    /\ pc = "outputs"
    /\ ~OutputFails(inst, file, id_to_ent)
    /\ vmf' = [vmf EXCEPT !.entities = AddOutputs(@, inst, file, id_to_ent, 1)]
    /\ pc' = "next"
    /\ UNCHANGED <<recur_limit, rounds, ids, cache, instances, inst, file, new_ents,
                   id_to_ent, auto_inst_count, unknown_kv, hist>>

\* line 465 raises KeyError
InstanceOutputsFail ==
    /\ pc = "outputs"
    /\ OutputFails(inst, file, id_to_ent)
    /\ pc' = "Crashed"
    /\ UNCHANGED <<recur_limit, rounds, vmf, ids, cache, instances, inst, file,
                   new_ents, id_to_ent, auto_inst_count, unknown_kv, hist>>

Next ==
    \/ Overflow
    \/ Terminate
    \/ Snapshot
    \/ EndRound
    \/ \E id \in instances : CacheHit(id)
    \/ \E id \in instances : CacheMiss(id)
    \/ \E id \in instances : ReadFails(id)
    \/ CopyBrushes
    \/ InstanceInputs
    \/ CopyEntities
    \/ Keyvalues
    \/ InstanceOutputs
    \/ InstanceOutputsFail

Spec == Init /\ [][Next]_vars

(***************************************************************************)
(* Properties.                                                             *)
(***************************************************************************)
Injective(f) == \A x, y \in DOMAIN f : f[x] = f[y] => x = y

\* the func_instance entities of the map collapse_all was given
StartRefs == {e \in DocEnts(hist.start) : e.classname = "func_instance"}

\* the map holds an instance of the file that holds an instance of itself
SelfLoop == \E e \in StartRefs : e.keys["file"] = "self"

\* every file the map names can be read (the nested files all can)
AllReadable == \A e \in StartRefs : e.keys["file"] \in FilePaths

Failed == pc \in {"ReadFailed", "Crashed"}

\* C1: with an instance of a file that holds an instance of itself, and every
\* file readable, collapse_all never returns and never fails otherwise; it
\* keeps running until it raises RecursionError, and when it does, exactly
\* recur_limit rounds have each expanded a snapshot of instances.
C1_SelfReferenceOverflows ==
    (SelfLoop /\ AllReadable) =>
        /\ pc # "Terminated"
        /\ ~Failed
        /\ rounds <= recur_limit
        /\ Len(hist.snapped) <= recur_limit
        /\ pc = "Overflowed" =>
              /\ rounds = recur_limit
              /\ Len(hist.snapped) = recur_limit
              /\ instances = {}
        /\ pc \in {"scan", "next", "brushes", "inputs", "ents", "keyvalues",
                   "outputs", "Overflowed"}
        /\ pc = "scan" => ENABLED (Overflow \/ Snapshot)
        /\ pc = "next" =>
              ENABLED (EndRound \/ \E id \in instances : CacheHit(id) \/ CacheMiss(id))
        /\ pc = "outputs" => ENABLED InstanceOutputs

C1_Witness ==
    /\ SelfLoop /\ AllReadable
    /\ pc = "Overflowed"
    /\ recur_limit > 1
    /\ Len(hist.snapped) = recur_limit

\* C2 (as claimed): collapse_all raises RecursionError only while a
\* func_instance is still in the map.
C2_OverflowOnlyWithReferences ==
    pc = "Overflowed" => \E e \in DocEnts(vmf) : e.classname = "func_instance"

\* C3: a map without a func_instance is returned as it was given: the only
\* step is the one to Terminated, and the map, the allocators, the cache and
\* the reads are untouched.
C3_NoReferencesNoChange ==
    StartRefs = {} =>
        /\ pc \in {"scan", "Terminated"}
        /\ pc = "scan" => (rounds = 0 /\ ENABLED Terminate)
        /\ vmf = hist.start
        /\ ids = DocIds(hist.start) @@ [node |-> {}]
        /\ cache = EmptyMap
        /\ hist.reads = <<>>
        /\ hist.expanded = <<>>

C3_Witness == StartRefs = {} /\ pc = "Terminated"

\* the number of times id was expanded
TimesExpanded(id) == Cardinality({n \in 1..Len(hist.expanded) : hist.expanded[n] = id})

\* C4: when collapse_all returns, the map holds no func_instance, and every
\* func_instance of every snapshot is out of the map and was expanded once.
C4_TerminatedMeansAllExpanded ==
    pc = "Terminated" =>
        /\ \A e \in DocEnts(vmf) : e.classname # "func_instance"
        /\ \A n \in 1..Len(hist.snapped) : \A id \in hist.snapped[n] :
              /\ id \notin DocEntIds(vmf)
              /\ TimesExpanded(id) = 1

C4_Witness ==
    /\ pc = "Terminated"
    /\ Len(hist.snapped) >= 2
    /\ Len(hist.expanded) >= 3

IdentityNone == inst.pos = ZeroVec /\ inst.orient = 0 /\ inst.fixup_type = "NONE"

\* the entities of the file that the expansion copied
CopiedFrom == {old \in Range(file.vmf.entities) : old.id \in DOMAIN id_to_ent}

CopyOf(old) == EntWithId(vmf, id_to_ent[old.id])

PlacementKeys == {"origin", "angles", "pitch", "yaw"}

NameKeys(ent) == {k \in DOMAIN ent.keys : IsEntName(KvType(ent.classname, k))}

\* pitch and yaw, where the entity has them, are those of its angles
SplitAgrees(ent) ==
    LET a == KeyOr(ent, "angles", ZeroVec) IN
    /\ "pitch" \in DOMAIN ent.keys => ent.keys["pitch"] = a[1]
    /\ "yaw" \in DOMAIN ent.keys => ent.keys["yaw"] = a[2]

MergedWith(o, p) ==
    [output |-> o.output, inst_out |-> o.inst_out,
     target |-> p.target, input |-> p.input, inst_in |-> NoneStr,
     params |-> IF p.params = "" THEN o.params ELSE p.params,
     times |-> IF o.times <= p.times THEN o.times ELSE p.times,
     delay |-> o.delay + p.delay,
     comma_sep |-> o.comma_sep /\ p.comma_sep]

\* C7: the instance-input pass changes nothing of the map but the outputs that
\* go through a proxy input; such an output gets the proxy's target and input,
\* no inst_in, the proxy's params unless they are empty, the smaller times,
\* the sum of the delays and the conjunction of comma_sep.
C7_InputMerge ==
    [][pc = "inputs" =>
        /\ vmf'.brushes = vmf.brushes
        /\ Len(vmf'.entities) = Len(vmf.entities)
        /\ \A n \in 1..Len(vmf.entities) :
            LET e == vmf.entities[n]
                f == vmf'.entities[n]
            IN  /\ [f EXCEPT !.outputs = e.outputs] = e
                /\ Len(f.outputs) = Len(e.outputs)
                /\ \A m \in 1..Len(e.outputs) :
                      f.outputs[m] =
                          IF InputMatches(e.outputs[m], inst, file)
                          THEN MergedWith(e.outputs[m],
                                   file.proxy_inputs[<<e.outputs[m].inst_in,
                                                       e.outputs[m].input>>])
                          ELSE e.outputs[m]
    ]_vars

C7_Witness ==
    /\ pc = "ents"
    /\ \E o \in Range(vmf.entities[1].outputs) :
          /\ o.target = "door" /\ o.input = "Open" /\ o.inst_in = NoneStr
          /\ o.params = "r" /\ o.times = 1 /\ o.delay = 3 /\ o.comma_sep
    /\ \E o \in Range(vmf.entities[1].outputs) :
          /\ o.target = "door" /\ o.input = "Trigger" /\ o.inst_in = NoneStr
          /\ o.params = "p" /\ ~o.comma_sep
    /\ \E o \in Range(vmf.entities[1].outputs) : o.inst_in = "door"

\* the paramN keys of ent after key number n that declare the name of key n
LaterDeclares(ent, n) ==
    \E m \in (n + 1)..Len(ent.keyorder) :
        /\ IsParamKey(ent.keyorder[m])
        /\ Casefold(ent.keys[ent.keyorder[m]][1]) = Casefold(ent.keys[ent.keyorder[n]][1])

\* C8 (as claimed): the Param of "name type default" has as default the whole
\* text after the type, with its spaces; a type that is none is string; of two
\* declarations of a name the later stands.
C8_ParamDefaultKeepsSpaces ==
    \A path \in DOMAIN cache :
        \A ent \in Range(FileAt(path).entities) :
            ent.classname = "func_instance_parms" =>
                \A n \in 1..Len(ent.keyorder) :
                    (IsParamKey(ent.keyorder[n]) /\ ~LaterDeclares(ent, n)) =>
                        LET toks == ent.keys[ent.keyorder[n]] IN
                        /\ Casefold(toks[1]) \in DOMAIN cache[path].params
                        /\ cache[path].params[Casefold(toks[1])] =
                              [name |-> toks[1],
                               type |-> IF Len(toks) >= 2 /\ toks[2] \in KnownTypes
                                        THEN toks[2] ELSE "string",
                               default |-> IF Len(toks) >= 3
                                           THEN SubSeq(toks, 3, Len(toks))
                                           ELSE <<"">>]

\* the face ids of a side list that the instance maps
MappedSides(toks) ==
    {n \in 1..Len(toks) : IsInt(toks[n]) /\ IntOf(toks[n]) \in DOMAIN inst.face_ids}

\* C9 (as claimed): a rewritten side list holds the new id of every mapped
\* token and nothing else, in ascending order of the numbers.
C9_SideListNumericOrder ==
    pc = "outputs" =>
        \A old \in CopiedFrom :
            (KvType(old.classname, "sides") = "sidelist" /\ "sides" \in DOMAIN old.keys) =>
                LET toks == old.keys["sides"]
                    new == CopyOf(old).keys["sides"]
                IN  /\ Len(new) = Cardinality(MappedSides(toks))
                    /\ {new[j] : j \in 1..Len(new)} =
                          {StrOf(inst.face_ids[IntOf(toks[n])]) : n \in MappedSides(toks)}
                    /\ \A j, k \in 1..Len(new) :
                          j < k => IntOf(new[j]) <= IntOf(new[k])

\* a position in the frame of the instance
Placed(v) == VecAdd(RotVec(v, inst.orient), inst.pos)

\* C10 (as claimed): a value of the vecaxis type is rewritten as its two
\* positions, each rotated and moved into the frame of the instance.
C10_AxisPairRule ==
    pc = "outputs" =>
        \A old \in CopiedFrom :
            \A k \in DOMAIN old.keys :
                KvType(old.classname, k) = "vecaxis" =>
                    CopyOf(old).keys[k] =
                        <<Placed(old.keys[k][1]), Placed(old.keys[k][2])>>

\* the name the claim gives a name under the policy of the instance
Renamed(name) ==
    CASE StartsGlobal(name) -> name
      [] ~StartsGlobal(name) /\ inst.fixup_type = "NONE" -> name
      [] ~StartsGlobal(name) /\ inst.fixup_type = "PREFIX" -> inst.name \o "-" \o name
      [] ~StartsGlobal(name) /\ inst.fixup_type = "SUFFIX" -> name \o "-" \o inst.name

\* C11: every entity name of a copied entity, and every output target, is the
\* name of the file (instance variables replaced) unchanged when it starts
\* with '@' or '!' or the policy is NONE, behind "<instance>-" under PREFIX,
\* before "-<instance>" under SUFFIX; the policy is one of the three.
C11_RenameByPolicy ==
    pc = "outputs" =>
        /\ inst.fixup_type \in {"PREFIX", "SUFFIX", "NONE"}
        /\ \A old \in CopiedFrom :
            /\ \A k \in NameKeys(old) :
                  CopyOf(old).keys[k] = Renamed(Substitute(inst.fixup, old.keys[k]))
            /\ \A m \in 1..Len(old.outputs) :
                  CopyOf(old).outputs[m].target =
                      Renamed(Substitute(inst.fixup, old.outputs[m].target))

C11_Witness ==
    /\ pc = "outputs"
    /\ inst.fixup_type = "SUFFIX"
    /\ \E old \in CopiedFrom :
          old.keys["targetname"] = "t1" /\ CopyOf(old).keys["targetname"] = "t1-inst"
    /\ \E old \in CopiedFrom :
          old.keys["targetname"] = "@glob" /\ CopyOf(old).keys["targetname"] = "@glob"
    /\ \E old \in CopiedFrom : \E k \in NameKeys(old) :
          old.keys[k] = "!self" /\ CopyOf(old).keys[k] = "!self"

\* the keys of ent that neither the hardcoded cases nor the FGD know
UnknownKeys(ent) ==
    {k \in DOMAIN ent.keys :
        /\ Casefold(k) \notin {"origin", "angles", "pitch", "yaw", "classname",
                               "hammerid", "spawnflags", "nodeid"}
        /\ KvType(ent.classname, Casefold(k)) = Missing}

\* the warnings logged for the pair
TimesWarned(pair) ==
    Cardinality({n \in 1..Len(hist.warned) : hist.warned[n] = pair})

\* C12 (as claimed): a key the FGD does not know is dropped from the copy.
C12_UnknownKeyDropped ==
    pc = "outputs" =>
        \A old \in CopiedFrom :
            \A k \in UnknownKeys(old) : k \notin DOMAIN CopyOf(old).keys

\* C12 (amended): a key the FGD does not know does not stop the expansion,
\* is warned of at most once in the run, and stays on the copy as it was in
\* the file.
C12_UnknownKeyKept ==
    /\ \A n \in 1..Len(hist.warned) : TimesWarned(hist.warned[n]) = 1
    /\ pc = "outputs" =>
        \A old \in CopiedFrom :
            \A k \in UnknownKeys(old) :
                /\ k \in DOMAIN CopyOf(old).keys
                /\ CopyOf(old).keys[k] = old.keys[k]
                /\ (old.classname = "func_instance" /\ IsDummyFixup(Casefold(k)))
                   \/ TimesWarned(<<old.classname, k>>) = 1

C12_Witness ==
    /\ pc = "outputs"
    /\ Len(hist.expanded) >= 2
    /\ \E n \in 1..(Len(hist.expanded) - 1) :
          hist.expanded[n] # hist.expanded[Len(hist.expanded)]
    /\ hist.warned = << <<"info_target", "mystery">> >>
    /\ Cardinality({e \in DocEnts(vmf) : "mystery" \in DOMAIN e.keys}) >= 2

Declarations == {"func_instance_parms", "func_instance_io_proxy"}

\* C13: no parsed instance file holds a func_instance_parms or a
\* func_instance_io_proxy entity, and neither does the map at any time.
C13_NoDeclarationsAfterParse ==
    /\ \A path \in DOMAIN cache :
          \A e \in DocEnts(cache[path].vmf) : e.classname \notin Declarations
    /\ \A e \in DocEnts(file.vmf) : e.classname \notin Declarations
    /\ \A e \in DocEnts(vmf) : e.classname \notin Declarations

C13_Witness ==
    /\ pc = "outputs"
    /\ inst.filename = "relay"
    /\ \E e \in DocEnts(FileAt("relay")) : e.classname = "func_instance_io_proxy"
    /\ Cardinality(new_ents) = Len(FileAt("relay").entities) - 2
    /\ file.proxy_inputs # EmptyMap /\ file.proxy_outputs # EmptyMap

\* C14: no path is read twice in a run: a path is read only when the cache
\* does not hold it, every file read is cached from then on, and an expansion
\* works on the cached file of its path.
C14_ReadOncePerPath ==
    /\ \A m, n \in 1..Len(hist.reads) : hist.reads[m] = hist.reads[n] => m = n
    /\ DOMAIN cache = Range(hist.reads) \cap FilePaths
    /\ pc \in {"brushes", "inputs", "ents", "keyvalues", "outputs"} =>
          /\ inst.filename \in DOMAIN cache
          /\ file = cache[inst.filename]

C14_Witness ==
    /\ pc = "outputs"
    /\ Len(hist.expanded) = 3
    /\ Len(hist.snapped) = 2
    /\ hist.reads = <<"leaf", "mid">>
    /\ inst.filename = "leaf"

\* a read of the run failed
SomeReadFailed == \E n \in 1..Len(hist.reads) : hist.reads[n] \notin FilePaths

\* C15: when the file of an instance cannot be read the run ends there with
\* the error: the path was tried once, the cache has no entry for it, and no
\* step follows, so nothing more is expanded.
C15_ReadFailureIsFatal ==
    /\ [](SomeReadFailed =>
            /\ pc = "ReadFailed"
            /\ hist.reads[Len(hist.reads)] = inst.filename
            /\ \A n \in 1..(Len(hist.reads) - 1) : hist.reads[n] \in FilePaths
            /\ inst.filename \notin DOMAIN cache)
    /\ [](pc = "ReadFailed" => SomeReadFailed)
    /\ [][pc # "ReadFailed"]_vars

C15_Witness ==
    /\ pc = "ReadFailed"
    /\ hist.reads = <<MissingPath>>
    /\ instances # {}
    /\ instances \subseteq FuncInstances(vmf)
    /\ cache = EmptyMap

\* the faces of the solids of the file that the expansion copies
CopiedFaces ==
    UNION {Range(b.faces) : b \in Range(ShownBrushes(file))}
    \cup UNION {Range(b.faces) : b \in UNION {Range(e.solids) : e \in Range(ShownEnts(file))}}

\* C16: when the keyvalues pass begins every shown entity and solid of the
\* file is copied, no keyvalue, fixup or output of a copy is rewritten yet and
\* inst.face_ids maps every face of every copied solid; so a rewritten side
\* list holds the new id of each of its faces that was copied, also of a face
\* of an entity that comes later in the file.
C16_CopiesBeforeKeyvalues ==
    /\ pc = "keyvalues" =>
          /\ DOMAIN id_to_ent = {e.id : e \in Range(ShownEnts(file))}
          /\ CopiedFaces \subseteq DOMAIN inst.face_ids
          /\ \A old \in CopiedFrom :
                /\ CopyOf(old).keys = old.keys
                /\ CopyOf(old).fixup = old.fixup
                /\ CopyOf(old).outputs = old.outputs
                /\ Len(CopyOf(old).solids) = Len(old.solids)
    /\ pc = "outputs" =>
          /\ CopiedFaces \subseteq DOMAIN inst.face_ids
          /\ \A old \in CopiedFrom :
                (KvType(old.classname, "sides") = "sidelist" /\ "sides" \in DOMAIN old.keys) =>
                    \A n \in 1..Len(old.keys["sides"]) :
                        LET tok == old.keys["sides"][n] IN
                        (IsInt(tok) /\ IntOf(tok) \in CopiedFaces) =>
                            StrOf(inst.face_ids[IntOf(tok)]) \in Range(CopyOf(old).keys["sides"])

C16_Witness ==
    /\ pc = "outputs"
    /\ \E n, m \in 1..Len(file.vmf.entities) :
          /\ n < m
          /\ "sides" \in DOMAIN file.vmf.entities[n].keys
          /\ file.vmf.entities[n].keys["sides"] = <<<<"5">>, <<"6">>>>
          /\ \E b \in Range(file.vmf.entities[m].solids) : 5 \in Range(b.faces)
          /\ CopyOf(file.vmf.entities[n]).keys["sides"] = <<StrOf(inst.face_ids[5])>>

Expanding == pc \in {"brushes", "inputs", "ents", "keyvalues", "outputs"}

\* the func_instance entities this expansion copied into the map
CopiedRefs == {e \in DocEnts(vmf) : e.id \in new_ents /\ e.classname = "func_instance"}

\* C17: round r (rounds = r - 1 rounds are over) expands only instances of
\* depth r - 1: the instances still to expand in the round have that depth,
\* an instance the round copied is not among them and, once marked, has the
\* depth of its parent plus one, and no instance is deeper than that.
C17_BreadthFirstDepth ==
    /\ Expanding => inst.recur_count = rounds
    /\ \A id \in instances :
          /\ id \in FuncInstances(vmf)
          /\ EntWithId(vmf, id).recur = rounds
    /\ pc = "outputs" =>
          \A e \in CopiedRefs : e.id \notin instances /\ e.recur = inst.recur_count + 1
    /\ (Expanding \/ pc = "next") =>
          \A e \in DocEnts(vmf) :
              (e.classname = "func_instance" /\ e.id \notin instances) =>
                  \/ e.recur = rounds + 1
                  \/ pc = "keyvalues" /\ e.id \in new_ents
    /\ \A e \in DocEnts(vmf) :
          e.classname = "func_instance" =>
              e.recur <= (IF pc \in {"scan", "Terminated", "Overflowed"}
                          THEN rounds ELSE rounds + 1)
    /\ pc = "scan" =>
          \A e \in DocEnts(vmf) : e.classname = "func_instance" => e.recur = rounds

C17_Witness ==
    /\ pc = "outputs"
    /\ rounds = 1
    /\ inst.recur_count = 1
    /\ instances # {}
    /\ \E e \in CopiedRefs : e.recur = 2

\* an output of the map that goes to a proxy input of the file of the
\* instance when case is ignored
FoldedInputMatch(o) ==
    /\ Casefold(o.target) = Casefold(inst.name)
    /\ o.inst_in # NoneStr
    /\ <<Casefold(o.inst_in), Casefold(o.input)>> \in DOMAIN file.proxy_inputs

\* C18 (as claimed): after the instance-input pass no output of the map is
\* left that names, ignoring case, a proxy input of the file: each one was
\* given the target and input of the proxy.
C18_InputLookupIgnoresCase ==
    pc = "ents" =>
        \A e \in DocEnts(vmf) : \A m \in 1..Len(e.outputs) :
            ~FoldedInputMatch(e.outputs[m])

\* C19 (as claimed): in the instance-output pass every output of the instance
\* that finds a proxy output of the file is added to a copied entity: the id
\* stored with the proxy output is that of an entity the expansion copied,
\* and the pass never fails.
C19_OutputsAlwaysAttach ==
    /\ pc # "Crashed"
    /\ pc = "outputs" =>
          \A m \in 1..Len(inst.outputs) :
              OutputMatches(inst.outputs[m], file) =>
                  file.proxy_outputs[ProxyKey(inst.outputs[m])].id \in DOMAIN id_to_ent

\* C20: a cached file stays as InstanceFile made it: every entry of the cache
\* is at all times the parse of the file at its path, no step removes or
\* changes an entry, and an expansion works on the entry of its path; so two
\* expansions of a path copy from the same content.
C20_CachedFileReadOnly ==
    /\ [](\A path \in DOMAIN cache : cache[path] = InstanceFile(FileAt(path)))
    /\ [](Expanding => file = InstanceFile(FileAt(inst.filename)))
    /\ [][\A path \in DOMAIN cache :
             path \in DOMAIN cache' /\ cache'[path] = cache[path]]_vars

C20_Witness ==
    /\ pc = "next"
    /\ Len(hist.expanded) = 3
    /\ hist.reads = <<"leaf", "mid">>
    /\ inst.filename = "leaf"
    /\ cache["leaf"] = InstanceFile(LeafFile)
    /\ Cardinality({e \in DocEnts(vmf) : "mystery" \in DOMAIN e.keys}) = 2

\* C21 (as claimed): under PREFIX or SUFFIX every output that the input pass
\* sent through a proxy input names, once the keyvalues are rewritten, an
\* entity that the expansion copied.
C21_ReroutedReachesCopy ==
    (pc = "outputs" /\ inst.fixup_type \in {"PREFIX", "SUFFIX"}) =>
        \A place \in hist.rerouted :
            \E e \in DocEnts(vmf) :
                /\ e.id \in new_ents
                /\ "targetname" \in DOMAIN e.keys
                /\ e.keys["targetname"] = vmf.entities[place[1]].outputs[place[2]].target

\* the keys of ent that hold a node id
NodeKeys(ent) ==
    {k \in DOMAIN ent.keys : KvType(ent.classname, k) \in {"node_id", "node_dest"}}

\* the old node ids that the copied entities name
NamedNodes ==
    {IntOf(old.keys[k]) : <<old, k>> \in
        {<<e, j>> \in CopiedFrom \X {"startnode", "endnode"} :
            j \in NodeKeys(e) /\ IsInt(e.keys[j])}}

\* C22: after the keyvalues pass inst.node_ids maps exactly the old node ids
\* the copied entities name, each to an id of its own; the allocator handed
\* out one id per old id and no more; every key naming an old id holds its new
\* id, and a value that is no number is as it was. Before the pass the table
\* is empty.
C22_NodeIdsMemoized ==
    /\ (Expanding /\ pc # "outputs") => inst.node_ids = EmptyMap
    /\ pc = "outputs" =>
          /\ DOMAIN inst.node_ids = NamedNodes
          /\ Injective(inst.node_ids)
          /\ ids.node = hist.alloc.node \cup Range(inst.node_ids)
          /\ Cardinality(ids.node) =
                Cardinality(hist.alloc.node) + Cardinality(NamedNodes)
          /\ \A old \in CopiedFrom : \A k \in NodeKeys(old) :
                CopyOf(old).keys[k] =
                    IF IsInt(old.keys[k])
                    THEN StrOf(inst.node_ids[IntOf(old.keys[k])])
                    ELSE old.keys[k]

C22_Witness ==
    /\ pc = "outputs"
    /\ DOMAIN inst.node_ids = {7, 8}
    /\ Cardinality(ids.node) = 2
    /\ \E old \in {e \in CopiedFrom : e.classname = "info_node_link"} :
          /\ old.keys["startnode"] = <<"7">> /\ old.keys["endnode"] = <<"7">>
          /\ CopyOf(old).keys["startnode"] = CopyOf(old).keys["endnode"]
    /\ \E old \in {e \in CopiedFrom : e.classname = "info_node_link"} :
          /\ old.keys["endnode"] = <<"x">> /\ CopyOf(old).keys["endnode"] = <<"x">>
    /\ \E old \in {e \in CopiedFrom : e.classname = "info_node_link"} :
          /\ old.keys["startnode"] = <<"8">> /\ old.keys["endnode"] = <<"7">>
          /\ CopyOf(old).keys["startnode"] # CopyOf(old).keys["endnode"]
====
